---- MODULE Spec2Model ----
(***************************************************************************)
(* Profile identity and approval resolution of the alumni platform:        *)
(* the POST /api/profile route handler, the admin approval server action,  *)
(* the sign-up upsert, the email sign-in handler, the sign-in precheck, the *)
(* recruiter / admin area gates, the dashboards, the verification page,    *)
(* the OAuth callback and the Navbar, over one `profiles` table.           *)
(*                                                                         *)
(* JavaScript values: a JSON object is a record, `undefined` / `null` are  *)
(* the sentinels Undefined / Null, a string that the code splits (the      *)
(* e-mail address) is a sequence of characters.  Every `await` on the      *)
(* store or on the auth service is one atomic step; the synchronous code   *)
(* between two awaits belongs to the step of the await that precedes it.   *)
(***************************************************************************)
EXTENDS Integers, Sequences, FiniteSets, TLC

VARIABLES
    store,      \* the rows of public.profiles
    req,        \* the in-flight and finished POST /api/profile calls
    approved,   \* ids whose row approveUser has updated (history)
    session,    \* the browser's auth session: a user id, or Undefined
    meta,       \* auth user_metadata.role of every user
    su,         \* SignUpPage.handleSubmit instance
    si,         \* SignInPage.handleEmailSignIn instance
    pre,        \* SignInPage.checkAuth instance
    page,       \* the page on show and its getUser / init effect
    nav         \* Navbar: user, profile and the profile fetches in flight

vars == <<store, req, approved, session, meta, su, si, pre, page, nav>>

----------------------------------------------------------------------------
(* JavaScript values *)
(* Scalars (strings) and objects (records) are kept apart: a scalar that   *)
(* is undefined or null is the string Undefined or NullStr, an object that *)
(* is undefined or null is the record UndefinedObj or Null, a text that is *)
(* split into characters is a sequence and NullText when it is NULL.       *)

Undefined == "<undefined>"
NullStr == "<null>"
UndefinedObj == [undefined |-> TRUE]
Null == [null |-> TRUE]
EmptyText == <<>>
NullText == <<"<null>">>

\* !x for a scalar, for an object and for a text
Falsy(x) == x \in {Undefined, NullStr, ""}
FalsyObj(o) == o \in {UndefinedObj, Null}
\* !x on a text as it would be if only null were tested
FalsyText_NullOnly(t) == t = NullText
FalsyText(t) == t \in {EmptyText, NullText}

\* obj?.field where the field holds a scalar / an object
Get(obj, field) ==
    IF FalsyObj(obj) THEN Undefined
    ELSE IF field \in DOMAIN obj THEN obj[field] ELSE Undefined
GetObj(obj, field) ==
    IF FalsyObj(obj) THEN UndefinedObj
    ELSE IF field \in DOMAIN obj THEN obj[field] ELSE UndefinedObj

\* a || b on scalars
OrElse(a, b) == IF Falsy(a) THEN b ELSE a

\* email.split('@')[0]
RECURSIVE SplitAt0(_)
SplitAt0(s) ==
    IF s = <<>> THEN <<>>
    ELSE IF Head(s) = "@" THEN <<>>
    ELSE <<Head(s)>> \o SplitAt0(Tail(s))

----------------------------------------------------------------------------
(* The identities of the auth service and the values a caller can send *)

Users == {"u1", "u2"}

EmailOf(u) == IF u = "u1" THEN <<"j", "n", "@", "x">> ELSE <<"b", "@", "y", "@", "z">>

\* the role strings a caller sends: the four the route accepts, the legacy
\* spelling of the sign-up form, one string no code knows, and none
RoleInputs == {Undefined, "STUDENT", "ALUMNI", "ALUMNUS", "RECRUITER", "ADMIN", "GUEST"}

StatusInputs == {Undefined, "PENDING", "APPROVED"}

\* bodies of POST /api/profile: what a caller sends for an identity, and
\* bodies with a missing or empty userId or an empty email
Bodies ==
    { [userId |-> u, email |-> EmailOf(u), role |-> r, status |-> s] :
        u \in Users, r \in RoleInputs, s \in StatusInputs }
    \cup
    { [userId |-> Undefined, email |-> EmailOf("u1"), role |-> Undefined, status |-> Undefined],
      [userId |-> "", email |-> EmailOf("u2"), role |-> "ADMIN", status |-> "APPROVED"],
      [userId |-> "u1", email |-> EmptyText, role |-> "STUDENT", status |-> Undefined] }

----------------------------------------------------------------------------
(* The profiles table *)

Columns == {"id", "name", "role", "status", "email", "full_name"}

\* .select('a, b, ...') of one row
Select(row, cols) == [c \in cols |-> row[c]]

\* .eq('id', userId)
Matching(rows, userId) == {row \in rows : row.id = userId}

\* status TEXT DEFAULT 'PENDING'
StatusDefault == "PENDING"

\* INSERT of a payload: columns that are not given take their default
NewRow(payload) ==
    [c \in Columns |->
        IF c \in DOMAIN payload THEN payload[c]
        ELSE IF c = "status" THEN StatusDefault
        ELSE IF c = "full_name" THEN NullStr
        ELSE NullText]

\* the table as it would be without the primary key on id
InsertConflicts_Never(rows, payload) == FALSE

\* the primary key on id rejects a second row with the same id
InsertConflicts(rows, payload) == Matching(rows, payload.id) # {}

\* UPDATE ... SET patch WHERE id = userId
UpdateRows(rows, userId, patch) ==
    { IF row.id = userId
      THEN [c \in Columns |-> IF c \in DOMAIN patch THEN patch[c] ELSE row[c]]
      ELSE row : row \in rows }

----------------------------------------------------------------------------
(* POST /api/profile: src/app/api/profile/route.js *)

\* the handler instances; in the browser "a" serves ensureProfile and "b" checkAuth
Reqs == {"a", "b"}

allowedRoles == {"STUDENT", "ALUMNI", "RECRUITER", "ADMIN"}

Response(code, body) == [status |-> code, body |-> body]
ErrorBody(msg) == [error |-> msg]

\* the messages of the store's errors
StoreUnavailable == "store unavailable"
DuplicateKey == "duplicate key value violates unique constraint"
NoRowsReturned == "JSON object requested, multiple (or no) rows returned"

\* what a store call can do besides what the rows decide
StoreOutcomes == {"ok", "error"}

NoBody == [userId |-> Undefined, email |-> EmptyText, role |-> Undefined, status |-> Undefined]
IdleReq ==
    [pc |-> "idle", body |-> NoBody, existing |-> Null, payload |-> Null,
     res |-> Null, wrote |-> FALSE]

\* the role-upgrade test as it would be if it protected a stored ADMIN role /
\* if it lacked the comparison with the stored role / if it lacked the allow list
RoleUpgradeRequested_KeepAdmin(requestedRole, existing) ==
    /\ ~Falsy(requestedRole)
    /\ requestedRole \in allowedRoles
    /\ requestedRole # existing.role
    /\ existing.role # "ADMIN"
RoleUpgradeRequested_NoCompare(requestedRole, existing) ==
    /\ ~Falsy(requestedRole)
    /\ requestedRole \in allowedRoles
RoleUpgradeRequested_NoAllowList(requestedRole, existing) ==
    /\ ~Falsy(requestedRole)
    /\ requestedRole # existing.role

\* route.js:33, the role-upgrade test on an existing row
RoleUpgradeRequested(requestedRole, existing) ==
    /\ ~Falsy(requestedRole)
    /\ requestedRole \in allowedRoles
    /\ requestedRole # existing.role

\* the role of a new row as it would be without the allow list
CreateRole_NoFallback(requestedRole) == requestedRole

\* route.js:55
CreateRole(requestedRole) ==
    IF requestedRole \in allowedRoles THEN requestedRole ELSE "ALUMNI"

\* route.js:57-59
CreateStatus(role, requestedStatus) ==
    IF role = "STUDENT" \/ role = "ADMIN" \/ role = "ALUMNI"
    THEN "APPROVED"
    ELSE OrElse(requestedStatus, "PENDING")

\* route.js:52-60
CreatePayload(body) ==
    LET name == SplitAt0(body.email)
        role == CreateRole(body.role)
        status == CreateStatus(role, body.status)
    IN [id |-> body.userId, name |-> name, role |-> role, status |-> status,
        email |-> body.email]

\* the handler as it would be without the test of fetchErr at route.js:48-50
Lookup_IgnoreFetchErr(rows, body, fetch) ==
    LET found == Matching(rows, body.userId)
        existing == IF fetch = "ok" /\ found # {}
                    THEN Select(CHOOSE row \in found : TRUE,
                                {"id", "name", "role", "status", "email"})
                    ELSE Null
        call == [IdleReq EXCEPT !.body = body, !.existing = existing]
    IN  IF Falsy(body.userId) \/ FalsyText(body.email)
        THEN [IdleReq EXCEPT !.body = body, !.pc = "done",
                !.res = Response(400, ErrorBody("userId and email required"))]
        ELSE IF existing # Null
        THEN IF RoleUpgradeRequested(body.role, existing)
             THEN [call EXCEPT !.pc = "update"]
             ELSE [call EXCEPT !.pc = "done", !.res = Response(200, existing)]
        ELSE [call EXCEPT !.pc = "insert", !.payload = CreatePayload(body)]

\* route.js:17-60: a call arrives, is validated and looks the row up; the
\* select either answers or fails with an error that is not PGRST116
Lookup(rows, body, fetch) ==
    LET found == Matching(rows, body.userId)
        existing == IF fetch = "ok" /\ found # {}
                    THEN Select(CHOOSE row \in found : TRUE,
                                {"id", "name", "role", "status", "email"})
                    ELSE Null
        fetchErr == fetch = "error"
        call == [IdleReq EXCEPT !.body = body, !.existing = existing]
    IN  IF Falsy(body.userId) \/ FalsyText(body.email)
        THEN [IdleReq EXCEPT !.body = body, !.pc = "done",
                !.res = Response(400, ErrorBody("userId and email required"))]
        ELSE IF existing # Null
        THEN IF RoleUpgradeRequested(body.role, existing)
             THEN [call EXCEPT !.pc = "update"]
             ELSE [call EXCEPT !.pc = "done", !.res = Response(200, existing)]
        ELSE IF fetchErr
        THEN [call EXCEPT !.pc = "done",
                !.res = Response(500, ErrorBody(StoreUnavailable))]
        ELSE [call EXCEPT !.pc = "insert", !.payload = CreatePayload(body)]

\* a handler instance is free for the next call
Free(r) == req[r].pc \in {"idle", "done"}

PostLookup(r, body, fetch) ==
    /\ Free(r)
    /\ req' = [req EXCEPT ![r] = Lookup(store, body, fetch)]
    /\ UNCHANGED <<store, approved, session, meta, su, si, pre, page, nav>>

\* route.js:34-43: update({ role }).eq('id', userId).select(...).single()
PostUpdate(r, outcome) ==
    /\ req[r].pc = "update"
    /\ LET userId == req[r].body.userId
           after == UpdateRows(store, userId, [role |-> req[r].body.role])
           found == Matching(after, userId)
           updateErr == IF outcome = "error" THEN StoreUnavailable
                        ELSE IF found = {} THEN NoRowsReturned
                        ELSE NullStr
       IN IF updateErr # NullStr
          THEN /\ req' = [req EXCEPT ![r].pc = "done",
                            ![r].res = Response(500, ErrorBody(updateErr))]
               /\ store' = store
          ELSE /\ store' = after
               /\ req' = [req EXCEPT ![r].pc = "done", ![r].wrote = TRUE,
                            ![r].res = Response(200,
                                Select(CHOOSE row \in found : TRUE,
                                       {"id", "name", "role", "status", "email"}))]
    /\ UNCHANGED <<approved, session, meta, su, si, pre, page, nav>>

\* the insert as it would be if it answered 200 like the other branches
PostInsert_Returns200(r, outcome) ==
    /\ req[r].pc = "insert"
    /\ LET payload == req[r].payload
           insertErr == IF outcome = "error" THEN StoreUnavailable
                        ELSE IF InsertConflicts(store, payload) THEN DuplicateKey
                        ELSE NullStr
       IN IF insertErr # NullStr
          THEN /\ req' = [req EXCEPT ![r].pc = "done",
                            ![r].res = Response(500, ErrorBody(insertErr))]
               /\ store' = store
          ELSE /\ store' = store \cup {NewRow(payload)}
               /\ req' = [req EXCEPT ![r].pc = "done", ![r].wrote = TRUE,
                            ![r].res = Response(200,
                                Select(NewRow(payload), {"id", "name", "role", "status"}))]
    /\ UNCHANGED <<approved, session, meta, su, si, pre, page, nav>>

\* route.js:63-73: insert([payload]).select(...).single()
PostInsert(r, outcome) ==
    /\ req[r].pc = "insert"
    /\ LET payload == req[r].payload
           insertErr == IF outcome = "error" THEN StoreUnavailable
                        ELSE IF InsertConflicts(store, payload) THEN DuplicateKey
                        ELSE NullStr
       IN IF insertErr # NullStr
          THEN /\ req' = [req EXCEPT ![r].pc = "done",
                            ![r].res = Response(500, ErrorBody(insertErr))]
               /\ store' = store
          ELSE /\ store' = store \cup {NewRow(payload)}
               /\ req' = [req EXCEPT ![r].pc = "done", ![r].wrote = TRUE,
                            ![r].res = Response(201,
                                Select(NewRow(payload), {"id", "name", "role", "status"}))]
    /\ UNCHANGED <<approved, session, meta, su, si, pre, page, nav>>

\* one step of a call whose body is drawn from the set bodies
POST(r, bodies) ==
    \/ \E body \in bodies, fetch \in StoreOutcomes : PostLookup(r, body, fetch)
    \/ \E outcome \in StoreOutcomes : PostUpdate(r, outcome)
    \/ \E outcome \in StoreOutcomes : PostInsert(r, outcome)

----------------------------------------------------------------------------
(* approveUser: src/app/(admin)/verify-users/page.js *)

\* the action as it would be if the update lacked its eq('id', userId) filter
approveUser_AllRows(userId, outcome) ==
    /\ IF outcome = "error"
       THEN UNCHANGED <<store, approved>>
       ELSE /\ store' = {[row EXCEPT !.status = "APPROVED"] : row \in store}
            /\ approved' = IF Matching(store, userId) # {} THEN approved \cup {userId}
                           ELSE approved
    /\ UNCHANGED <<req, session, meta, su, si, pre, page, nav>>

\* verify-users/page.js:21-46: update({ status: 'APPROVED' }).eq('id', userId);
\* on an error the action throws and nothing is written
approveUser(userId, outcome) ==
    /\ IF outcome = "error"
       THEN UNCHANGED <<store, approved>>
       ELSE /\ store' = UpdateRows(store, userId, [status |-> "APPROVED"])
            /\ approved' = IF Matching(store, userId) # {} THEN approved \cup {userId}
                           ELSE approved
    /\ UNCHANGED <<req, session, meta, su, si, pre, page, nav>>

----------------------------------------------------------------------------
(* The browser: one tab, the page it shows and the handlers it has started *)

\* fix-rls-policies.sql:20-29: with the browser's client a row is read and
\* written only under the session of its own id
VisibleRows(rows, uid) == {row \in rows : row.id = uid}

IdleSu == [pc |-> "idle", user |-> Undefined, role |-> Undefined, userStatus |-> Undefined]

IdleSi ==
    [pc |-> "idle", user |-> Undefined, metaRole |-> Undefined,
     ensure |-> "idle", fetch |-> "idle",
     profileResponse |-> Null, role |-> NullStr,
     derivedRole |-> Undefined, error |-> "", dest |-> Undefined]

IdlePre ==
    [pc |-> "idle", user |-> Undefined, roleCandidate |-> Undefined, dest |-> Undefined]

\* the pages that guard an area by role
GatedPaths == {"/recruiter", "/admin"}

\* a page as it is mounted: the pages with an effect start it (getUser of
\* the gated pages, init of the student dashboard, getUser of the dashboard
\* and of the portal, the gate of the verification page, handleCallback)
MountPage(path) ==
    [path |-> path,
     pc |-> CASE path \in GatedPaths -> "getSession"
              [] path = "/student/dashboard" -> "init"
              [] path = "/dashboard" -> "getUser"
              [] path = "/portal" -> "portalSession"
              [] path = "/admin/verify-users" -> "verifyUser"
              [] path = "/auth/callback" -> "callback"
              [] OTHER -> "shown",
     user |-> Undefined, metaRole |-> Undefined, profile |-> Null, pendingUsers |-> {}]

\* a handler of the tab has been started and has not returned
SuInFlight == su.pc \in {"upsert", "done"}
SiInFlight == si.pc = "parallel"
PreInFlight == pre.pc \in {"getSession", "waiting"}
PageInFlight == page.pc \notin {"shown", "rendered"}
InFlight == SuInFlight \/ SiInFlight \/ PreInFlight \/ PageInFlight

\* a page replaces the one shown: the state of the components that are
\* unmounted is dropped, a handler that is still running goes on, and
\* signin/page.js:44-80, the sign-in page starts checkAuth when it mounts
PreAfterMount(path) ==
    IF path = "/signin" THEN [IdlePre EXCEPT !.pc = "getSession"]
    ELSE IF PreInFlight THEN pre
    ELSE IdlePre
SiAfterMount == IF SiInFlight THEN si ELSE IdleSi
SuAfterMount == IF SuInFlight THEN su ELSE IdleSu

\* the pages the user opens by hand
Paths == {"/signin", "/signup", "/recruiter", "/admin"}

\* the user opens a page, once the handlers of the page shown have returned
Visit(path) ==
    /\ page.path # path
    /\ ~InFlight
    /\ page' = MountPage(path)
    /\ pre' = PreAfterMount(path)
    /\ si' = SiAfterMount
    /\ su' = SuAfterMount
    /\ UNCHANGED <<store, req, approved, session, meta, nav>>

----------------------------------------------------------------------------
(* SignUpPage.handleSubmit: src/app/(auth)/signin/page.js:483-558 *)

\* signin/page.js:626-628, the roles of the form
SignUpRoles == {"STUDENT", "ALUMNUS", "RECRUITER"}

FullName == "Jane Doe"

\* upsert(payload, { onConflict: 'id' })
Upsert(rows, payload) ==
    IF InsertConflicts(rows, payload)
    THEN UpdateRows(rows, payload.id, payload)
    ELSE rows \cup {NewRow(payload)}

\* signin/page.js:495-520: auth.signUp. What the auth service answers is not
\* decided by this code: it fails, or it returns the identity u, which may
\* already have a row (the handler upserts for that reason), and it opens a
\* session when the project confirms the e-mail at once
HandleSubmitSignUp(u, role, outcome, confirmed) ==
    /\ page.path = "/signup"
    /\ su.pc = "idle"
    /\ IF outcome = "error"
       THEN /\ su' = IdleSu
            /\ UNCHANGED <<meta, session>>
       ELSE /\ meta' = [meta EXCEPT ![u] = role]
            /\ session' = IF confirmed THEN u ELSE session
            /\ su' = [pc |-> "upsert", user |-> u, role |-> role,
                      userStatus |-> IF role = "STUDENT" THEN "APPROVED" ELSE "PENDING"]
    /\ UNCHANGED <<store, req, approved, si, pre, page, nav>>

\* signin/page.js:522-545: the upsert; its error is logged and ignored
HandleSubmitUpsert(outcome) ==
    /\ su.pc = "upsert"
    /\ LET payload == [id |-> su.user, full_name |-> FullName, role |-> su.role,
                       status |-> su.userStatus]
           profileError == outcome = "error" \/ session # su.user
       IN store' = IF profileError THEN store ELSE Upsert(store, payload)
    /\ su' = [su EXCEPT !.pc = "done"]
    /\ UNCHANGED <<req, approved, session, meta, si, pre, page, nav>>

\* signin/page.js:548-550: the timer sends the browser to the sign-in page
HandleSubmitRedirect ==
    /\ su.pc = "done"
    /\ su' = IdleSu
    /\ page' = MountPage("/signin")
    /\ pre' = PreAfterMount("/signin")
    /\ si' = SiAfterMount
    /\ UNCHANGED <<store, req, approved, session, meta, nav>>

----------------------------------------------------------------------------
(* SignInPage.handleEmailSignIn: src/app/(auth)/signin/page.js:113-236 *)

PendingApprovalMessage == "Your account is pending admin approval. Please wait until it is approved."

\* res.ok
Ok(res) == res.status >= 200 /\ res.status <= 299

\* the body the views send: the identity and the role of its metadata
ViewBody(u, role) == [userId |-> u, email |-> EmailOf(u), role |-> role, status |-> Undefined]

\* the mapping as it would be if it exchanged the two spellings
NormalizeRole_Swap(role) ==
    IF role = "ALUMNUS" THEN "ALUMNI" ELSE IF role = "ALUMNI" THEN "ALUMNUS" ELSE role

\* signin/page.js:189 and signin/page.js:69: the legacy spelling of the role
NormalizeRole(role) == IF role = "ALUMNUS" THEN "ALUMNI" ELSE role

\* signin/page.js:183-189
DerivedRole(role, profileResponse, metaRole) ==
    LET first == OrElse(OrElse(OrElse(role, Get(GetObj(profileResponse, "profile"), "role")),
                               metaRole), "ALUMNI")
        second == IF /\ (first = "ALUMNI" \/ first = "ALUMNUS")
                     /\ ~Falsy(metaRole)
                     /\ metaRole # "ALUMNUS" /\ metaRole # "ALUMNI"
                  THEN metaRole ELSE first
    IN NormalizeRole(second)

\* the test as it would be if it read the status of the flat response and
\* lacked the exemption of students
BlockedAsPending_FlatNoStudent(derivedRole, profileResponse) ==
    Get(profileResponse, "status") = "PENDING"

\* signin/page.js:195
BlockedAsPending(derivedRole, profileResponse) ==
    /\ derivedRole # "STUDENT"
    /\ Get(GetObj(profileResponse, "profile"), "status") = "PENDING"

\* the switch as it would be without its default and the initial '/dashboard'
SignInDest_NoDefault(derivedRole) ==
    CASE derivedRole = "ADMIN" -> "/admin"
      [] derivedRole = "RECRUITER" -> "/recruiter"
      [] derivedRole = "STUDENT" -> "/student/dashboard"
      [] OTHER -> Undefined

\* signin/page.js:204-210
SignInDest(derivedRole) ==
    CASE derivedRole = "ADMIN" -> "/admin"
      [] derivedRole = "RECRUITER" -> "/recruiter"
      [] derivedRole = "STUDENT" -> "/student/dashboard"
      [] OTHER -> "/dashboard"

\* signin/page.js:124-133: auth.signInWithPassword
SignInWithPassword(u, outcome) ==
    /\ page.path = "/signin"
    /\ si.pc \in {"idle", "blocked"}
    /\ IF outcome = "error"
       THEN /\ si' = [IdleSi EXCEPT !.error = "Invalid email or password."]
            /\ session' = session
       ELSE /\ session' = u
            /\ si' = [IdleSi EXCEPT !.pc = "parallel", !.user = u, !.metaRole = meta[u],
                        !.ensure = "start", !.fetch = "start"]
    /\ UNCHANGED <<store, req, approved, meta, su, pre, page, nav>>

\* signin/page.js:136-143: ensureProfile posts to the route
EnsureProfileFetch(fetch) ==
    /\ si.pc = "parallel" /\ si.ensure = "start"
    /\ Free("a")
    /\ req' = [req EXCEPT !["a"] = Lookup(store, ViewBody(si.user, si.metaRole), fetch)]
    /\ si' = [si EXCEPT !.ensure = "waiting"]
    /\ UNCHANGED <<store, approved, session, meta, su, pre, page, nav>>

\* signin/page.js:144-149: the response; not ok is thrown, caught, and null
EnsureProfileReturn ==
    /\ si.pc = "parallel" /\ si.ensure = "waiting"
    /\ req["a"].pc = "done"
    /\ si' = [si EXCEPT !.ensure = "done",
                !.profileResponse = IF Ok(req["a"].res) THEN req["a"].res.body ELSE Null]
    /\ req' = [req EXCEPT !["a"] = IdleReq]
    /\ UNCHANGED <<store, approved, session, meta, su, pre, page, nav>>

\* signin/page.js:152-165: fetchRole
FetchRole(outcome) ==
    /\ si.pc = "parallel" /\ si.fetch = "start"
    /\ LET found == Matching(VisibleRows(store, session), si.user)
           profile == IF found # {} THEN Select(CHOOSE row \in found : TRUE, {"role"}) ELSE Null
       IN si' = [si EXCEPT !.fetch = "done",
                    !.role = IF outcome = "error" THEN NullStr
                             ELSE OrElse(Get(profile, "role"), NullStr)]
    /\ UNCHANGED <<store, req, approved, session, meta, su, pre, page, nav>>

\* signin/page.js:171-219: both tasks are back; the role is derived and
\* written to the auth metadata, then the sign-in is blocked (the message,
\* auth.signOut) or redirected
SignInDecide(outcome) ==
    /\ si.pc = "parallel" /\ si.ensure = "done" /\ si.fetch = "done"
    /\ LET derivedRole == DerivedRole(si.role, si.profileResponse, si.metaRole)
       IN /\ meta' = IF outcome = "ok" THEN [meta EXCEPT ![si.user] = derivedRole] ELSE meta
          /\ IF BlockedAsPending(derivedRole, si.profileResponse)
             THEN /\ si' = [IdleSi EXCEPT !.pc = "blocked", !.user = si.user,
                              !.derivedRole = derivedRole,
                              !.error = PendingApprovalMessage]
                  /\ session' = Undefined
                  /\ UNCHANGED <<page, pre>>
             ELSE /\ si' = [IdleSi EXCEPT !.pc = "redirected", !.user = si.user,
                              !.derivedRole = derivedRole,
                              !.dest = SignInDest(derivedRole)]
                  /\ page' = MountPage(SignInDest(derivedRole))
                  /\ pre' = PreAfterMount(SignInDest(derivedRole))
                  /\ session' = session
    /\ UNCHANGED <<store, req, approved, su, nav>>

handleEmailSignIn(users) ==
    \/ \E u \in users, outcome \in StoreOutcomes : SignInWithPassword(u, outcome)
    \/ \E fetch \in StoreOutcomes : EnsureProfileFetch(fetch)
    \/ EnsureProfileReturn
    \/ \E outcome \in StoreOutcomes : FetchRole(outcome)
    \/ \E outcome \in StoreOutcomes : SignInDecide(outcome)

----------------------------------------------------------------------------
(* SignInPage.checkAuth: src/app/(auth)/signin/page.js:44-80 *)

\* signin/page.js:58-64
PrecheckRole(prof, roleCandidate) ==
    IF Falsy(Get(prof, "role")) THEN roleCandidate
    ELSE IF (prof.role = "ALUMNI" \/ prof.role = "ALUMNUS") /\ roleCandidate = "STUDENT"
    THEN "STUDENT"
    ELSE prof.role

\* signin/page.js:73-76
PrecheckDest(roleCandidate) ==
    IF roleCandidate = "ADMIN" THEN "/admin"
    ELSE IF roleCandidate = "STUDENT" THEN "/student/dashboard"
    ELSE IF roleCandidate = "RECRUITER" THEN "/recruiter"
    ELSE "/dashboard"

\* signin/page.js:46-54: getSession, then the post to the route
CheckAuthFetch(fetch) ==
    /\ pre.pc = "getSession"
    /\ IF session = Undefined
       THEN /\ pre' = [IdlePre EXCEPT !.pc = "stay"]
            /\ req' = req
       ELSE /\ Free("b")
            /\ req' = [req EXCEPT !["b"] = Lookup(store, ViewBody(session, meta[session]), fetch)]
            /\ pre' = [pre EXCEPT !.pc = "waiting", !.user = session,
                         !.roleCandidate = meta[session]]
    /\ UNCHANGED <<store, approved, session, meta, su, si, page, nav>>

\* signin/page.js:55-77: the response, the role and the redirect
CheckAuthReturn ==
    /\ pre.pc = "waiting"
    /\ req["b"].pc = "done"
    /\ LET res == req["b"].res
           prof == IF Ok(res) THEN res.body ELSE Null
           fromProfile == IF Ok(res) THEN PrecheckRole(prof, pre.roleCandidate)
                          ELSE pre.roleCandidate
           roleCandidate == NormalizeRole(fromProfile)
       IN IF roleCandidate \notin {"ADMIN", "STUDENT", "RECRUITER", "ALUMNI"}
          THEN /\ pre' = [IdlePre EXCEPT !.pc = "stay"]
               /\ UNCHANGED <<page, si>>
          ELSE /\ pre' = [IdlePre EXCEPT !.pc = "redirected", !.user = pre.user,
                             !.roleCandidate = roleCandidate,
                             !.dest = PrecheckDest(roleCandidate)]
               /\ page' = MountPage(PrecheckDest(roleCandidate))
               /\ si' = SiAfterMount
    /\ req' = [req EXCEPT !["b"] = IdleReq]
    /\ UNCHANGED <<store, approved, session, meta, su, nav>>

checkAuth ==
    \/ \E fetch \in StoreOutcomes : CheckAuthFetch(fetch)
    \/ CheckAuthReturn

----------------------------------------------------------------------------
(* RecruiterDashboard / AdminDashboard getUser:                            *)
(* src/app/(recruiter)/recruiter/page.js:21-50, src/unnamed/part_006:21-50 *)

\* recruiter/page.js:40, part_006:40
RequiredRole(path) == IF path = "/recruiter" THEN "RECRUITER" ELSE "ADMIN"

\* recruiter/page.js:41, part_006:41
GateFallback(path) == IF path = "/recruiter" THEN "/dashboard" ELSE "/portal"

\* recruiter/page.js:23-30: getSession
GateGetSession ==
    /\ page.pc = "getSession"
    /\ IF session = Undefined
       THEN /\ page' = MountPage("/signin")
            /\ pre' = PreAfterMount("/signin")
            /\ si' = SiAfterMount
       ELSE /\ page' = [page EXCEPT !.pc = "select", !.user = session]
            /\ UNCHANGED <<pre, si>>
    /\ UNCHANGED <<store, req, approved, session, meta, su, nav>>

\* recruiter/page.js:33-46: select('*').eq('id', ...).single(), the role test
GateSelect(outcome) ==
    /\ page.pc = "select"
    /\ LET found == Matching(VisibleRows(store, session), page.user)
           profileData == IF outcome = "ok" /\ found # {}
                          THEN CHOOSE row \in found : TRUE
                          ELSE Null
       IN IF Get(profileData, "role") # RequiredRole(page.path)
          THEN /\ page' = MountPage(GateFallback(page.path))
               /\ pre' = PreAfterMount(GateFallback(page.path))
               /\ si' = SiAfterMount
          ELSE /\ page' = [page EXCEPT !.pc = "rendered", !.profile = profileData]
               /\ UNCHANGED <<pre, si>>
    /\ UNCHANGED <<store, req, approved, session, meta, su, nav>>

getUser ==
    \/ GateGetSession
    \/ \E outcome \in StoreOutcomes : GateSelect(outcome)

----------------------------------------------------------------------------
(* The profile service: src/unnamed/part_007, src/lib/profile-service.js *)

\* the text 'User'
UserText == <<"U", "s", "e", "r">>

\* part_007:4-8
FALLBACK_PROFILE == [name |-> UserText, role |-> "ALUMNI", status |-> "APPROVED"]

\* lib/profile-service.js:4-8
FALLBACK_PROFILE_Lib == [full_name |-> UserText, role |-> "STUDENT", status |-> "APPROVED"]

\* { ...fallback, id: userId }
WithId(fallback, userId) ==
    [f \in DOMAIN fallback \cup {"id"} |-> IF f = "id" THEN userId ELSE fallback[f]]

\* { ...FALLBACK_PROFILE, id: userId, autoFallback: true }
AutoFallback(userId) ==
    [f \in DOMAIN FALLBACK_PROFILE \cup {"id", "autoFallback"} |->
        IF f = "id" THEN userId ELSE IF f = "autoFallback" THEN TRUE ELSE FALLBACK_PROFILE[f]]

\* part_007:11-35: the server-side helper, with the service role
getUserProfileSafe(rows, userId, outcome) ==
    LET found == Matching(rows, userId)
    IN IF outcome = "error" \/ found = {}
       THEN WithId(FALLBACK_PROFILE, userId)
       ELSE Select(CHOOSE row \in found : TRUE, {"name", "role", "status"})

\* lib/profile-service.js:11-35: .single() makes no row an error
getUserProfileSafe_Lib(rows, userId, outcome) ==
    LET found == Matching(rows, userId)
    IN IF outcome = "error" \/ found = {}
       THEN WithId(FALLBACK_PROFILE_Lib, userId)
       ELSE Select(CHOOSE row \in found : TRUE, {"full_name", "role", "status"})

\* lib/profile-service.js:38-56: the client-side helper, under the session
getUserProfileClient_Lib(rows, uid, userId, outcome) ==
    getUserProfileSafe_Lib(VisibleRows(rows, uid), userId, outcome)

\* (portal)/dashboard/page.js:59: the fallback of the dashboard view
DashboardFallback(id, email) ==
    [id |-> id, name |-> SplitAt0(email), role |-> "ALUMNI", status |-> "PENDING",
     fallback |-> TRUE]

----------------------------------------------------------------------------
(* Navbar: src/unnamed/part_000, with getUserProfileClient of part_007 *)

IdleNav == [pc |-> "mount", user |-> Undefined, profile |-> Null, fetches |-> {}]

\* part_007:38-45: getUserProfile(userId) starts with the select
StartFetch(userId) == [user |-> userId, pc |-> "select"]

\* part_000:48-60: getInitialSession
NavGetInitialSession ==
    /\ nav.pc = "mount"
    /\ nav' = IF session = Undefined
              THEN [nav EXCEPT !.pc = "listening"]
              ELSE [nav EXCEPT !.pc = "listening", !.user = session,
                       !.fetches = @ \cup {StartFetch(session)}]
    /\ UNCHANGED <<store, req, approved, session, meta, su, si, pre, page>>

\* part_000:63-68: the auth service signs u in and the listener handles SIGNED_IN
NavSignedIn(u) ==
    /\ nav.pc = "listening"
    /\ session = Undefined
    /\ session' = u
    /\ nav' = [nav EXCEPT !.user = u, !.fetches = @ \cup {StartFetch(u)}]
    /\ UNCHANGED <<store, req, approved, meta, su, si, pre, page>>

\* part_000:69-72: the session ends and the listener handles SIGNED_OUT
NavSignedOut ==
    /\ nav.pc = "listening"
    /\ session # Undefined
    /\ session' = Undefined
    /\ nav' = [nav EXCEPT !.user = Undefined, !.profile = Null]
    /\ UNCHANGED <<store, req, approved, meta, su, si, pre, page>>

\* part_007:41-54 and part_000:53-54, 67-68: the select of a fetch answers;
\* a row ends the fetch and setProfile runs, an error ends it with the
\* fallback, no row sends it on to the insert
NavFetchSelect(f, outcome) ==
    /\ f \in nav.fetches /\ f.pc = "select"
    /\ LET found == Matching(VisibleRows(store, session), f.user)
       IN IF outcome = "error"
          THEN nav' = [nav EXCEPT !.fetches = @ \ {f},
                          !.profile = WithId(FALLBACK_PROFILE, f.user)]
          ELSE IF found # {}
          THEN nav' = [nav EXCEPT !.fetches = @ \ {f},
                          !.profile = Select(CHOOSE row \in found : TRUE,
                                             {"id", "name", "role", "status"})]
          ELSE nav' = [nav EXCEPT !.fetches = (@ \ {f}) \cup {[f EXCEPT !.pc = "insert"]}]
    /\ UNCHANGED <<store, req, approved, session, meta, su, si, pre, page>>

\* part_007:59-67
AutoCreatePayload(userId, user) ==
    [id |-> userId,
     name |-> IF user = Undefined THEN UserText ELSE SplitAt0(EmailOf(user)),
     role |-> "ALUMNI", status |-> "APPROVED"]

\* part_007:56-89: the insert of the missing row, allowed under the session
\* of the same id; setProfile runs with the row or with the fallback
NavFetchInsert(f, outcome) ==
    /\ f \in nav.fetches /\ f.pc = "insert"
    /\ LET payload == AutoCreatePayload(f.user, session)
           insertError == \/ outcome = "error"
                          \/ session # f.user
                          \/ InsertConflicts(store, payload)
       IN IF insertError
          THEN /\ store' = store
               /\ nav' = [nav EXCEPT !.fetches = @ \ {f}, !.profile = AutoFallback(f.user)]
          ELSE /\ store' = store \cup {NewRow(payload)}
               /\ nav' = [nav EXCEPT !.fetches = @ \ {f},
                             !.profile = Select(NewRow(payload),
                                                {"id", "name", "role", "status"})]
    /\ UNCHANGED <<req, approved, session, meta, su, si, pre, page>>

\* part_000:84-107
handleSignOut ==
    /\ nav.pc = "listening"
    /\ nav.user # Undefined
    /\ session' = Undefined
    /\ nav' = [nav EXCEPT !.user = Undefined, !.profile = Null]
    /\ page' = MountPage("/")
    /\ pre' = PreAfterMount("/")
    /\ si' = SiAfterMount
    /\ su' = SuAfterMount
    /\ UNCHANGED <<store, req, approved, meta>>

\* part_000:112-123
getDashboardLink(profile) ==
    IF Falsy(Get(profile, "role")) THEN "/dashboard"
    ELSE CASE profile.role = "ADMIN" -> "/admin"
           [] profile.role = "RECRUITER" -> "/recruiter"
           [] OTHER -> "/dashboard"

Navbar ==
    \/ NavGetInitialSession
    \/ \E u \in Users : NavSignedIn(u)
    \/ NavSignedOut
    \/ \E f \in nav.fetches, outcome \in StoreOutcomes : NavFetchSelect(f, outcome)
    \/ \E f \in nav.fetches, outcome \in StoreOutcomes : NavFetchInsert(f, outcome)
    \/ handleSignOut

----------------------------------------------------------------------------
(* The pages behind the redirects: StudentDashboard (src/unnamed/part_005), *)
(* Dashboard and PortalDashboard (src/app/(portal)), VerifyUsersPage        *)
(* (src/app/(admin)/verify-users/page.js), the OAuth callback               *)

\* auth.getUser(): the auth service validates the session; an error or a
\* session it no longer knows gives no user
AuthGetUser(outcome) == IF outcome = "ok" THEN session ELSE Undefined

\* router.replace / router.push / redirect from the page shown
Redirect(path) ==
    /\ page' = MountPage(path)
    /\ pre' = PreAfterMount(path)
    /\ si' = SiAfterMount

\* part_005:28-37: auth.getUser, setUser, the role of the metadata
StudentGetUser(outcome) ==
    /\ page.pc = "init"
    /\ LET user == AuthGetUser(outcome)
       IN IF user = Undefined
          THEN Redirect("/signin")
          ELSE /\ page' = [page EXCEPT !.pc = "post", !.user = user, !.metaRole = meta[user]]
               /\ UNCHANGED <<pre, si>>
    /\ UNCHANGED <<store, req, approved, session, meta, su, nav>>

\* part_005:38-42 and 48-52: the post to the route with the role of the
\* metadata, and the second post with the role STUDENT
StudentPost(fetch) ==
    /\ page.pc \in {"post", "post2"}
    /\ Free("a")
    /\ LET role == IF page.pc = "post" THEN page.metaRole ELSE "STUDENT"
       IN req' = [req EXCEPT !["a"] = Lookup(store, ViewBody(page.user, role), fetch)]
    /\ page' = [page EXCEPT !.pc = IF page.pc = "post" THEN "waiting" ELSE "waiting2"]
    /\ UNCHANGED <<store, approved, session, meta, su, si, pre, nav>>

\* part_005:46 and 65: the body has a role and the role is not STUDENT
NotStudent(data) == ~Falsy(Get(data, "role")) /\ data.role # "STUDENT"

\* part_005:43-69: the first response: res.json() whatever the status,
\* setProfile, the role test; part_005:53-64: the second response
StudentReturn ==
    /\ page.pc \in {"waiting", "waiting2"}
    /\ req["a"].pc = "done"
    /\ LET res == req["a"].res
           data == res.body
       IN IF page.pc = "waiting"
          THEN IF NotStudent(data) /\ page.metaRole = "STUDENT"
               THEN /\ page' = [page EXCEPT !.pc = "post2", !.profile = data]
                    /\ UNCHANGED <<pre, si>>
               ELSE IF NotStudent(data)
               THEN Redirect("/dashboard")
               ELSE /\ page' = [page EXCEPT !.pc = "fetching", !.profile = data]
                    /\ UNCHANGED <<pre, si>>
          ELSE IF Ok(res) /\ Get(data, "role") = "STUDENT"
               THEN /\ page' = [page EXCEPT !.pc = "fetching", !.profile = data]
                    /\ UNCHANGED <<pre, si>>
               ELSE Redirect("/dashboard")
    /\ req' = [req EXCEPT !["a"] = IdleReq]
    /\ UNCHANGED <<store, approved, session, meta, su, nav>>

\* part_005:71-74, 83-100: fetchEvents and fetchMentorshipRequests, which
\* ignore an error of the store; then the dashboard is on show
StudentFetch ==
    /\ page.pc = "fetching"
    /\ page' = [page EXCEPT !.pc = "shown"]
    /\ UNCHANGED <<store, req, approved, session, meta, su, si, pre, nav>>

\* part_005:26-81
init ==
    \/ \E outcome \in StoreOutcomes : StudentGetUser(outcome)
    \/ \E fetch \in StoreOutcomes : StudentPost(fetch)
    \/ StudentReturn
    \/ StudentFetch

\* (portal)/dashboard/page.js:38-43: auth.getUser; with no user the code
\* calls redirect('/signin') of next/navigation outside rendering, which
\* the router follows or not: both outcomes are kept
DashboardGetUser(outcome, follows) ==
    /\ page.pc = "getUser"
    /\ LET user == AuthGetUser(outcome)
       IN IF user = Undefined
          THEN IF follows
               THEN Redirect("/signin")
               ELSE /\ page' = [page EXCEPT !.pc = "shown"]
                    /\ UNCHANGED <<pre, si>>
          ELSE /\ page' = [page EXCEPT !.pc = "dashboardPost", !.user = user]
               /\ UNCHANGED <<pre, si>>
    /\ UNCHANGED <<store, req, approved, session, meta, su, nav>>

\* (portal)/dashboard/page.js:46-50: the post to the route, without a role
DashboardPost(fetch) ==
    /\ page.pc = "dashboardPost"
    /\ Free("a")
    /\ req' = [req EXCEPT !["a"] = Lookup(store, ViewBody(page.user, Undefined), fetch)]
    /\ page' = [page EXCEPT !.pc = "dashboardWaiting"]
    /\ UNCHANGED <<store, approved, session, meta, su, si, pre, nav>>

\* (portal)/dashboard/page.js:52-60: the profile, or the fallback of the view
DashboardReturn ==
    /\ page.pc = "dashboardWaiting"
    /\ req["a"].pc = "done"
    /\ page' = [page EXCEPT !.pc = "shown",
                    !.profile = IF Ok(req["a"].res) THEN req["a"].res.body
                                ELSE DashboardFallback(page.user, EmailOf(page.user))]
    /\ req' = [req EXCEPT !["a"] = IdleReq]
    /\ UNCHANGED <<store, approved, session, meta, su, si, pre, nav>>

\* (portal)/dashboard/page.js:36-67
dashboardGetUser ==
    \/ \E outcome \in StoreOutcomes, follows \in BOOLEAN : DashboardGetUser(outcome, follows)
    \/ \E fetch \in StoreOutcomes : DashboardPost(fetch)
    \/ DashboardReturn

\* (portal)/portal/page.js:23-30: getSession
PortalGetSession ==
    /\ page.pc = "portalSession"
    /\ IF session = Undefined
       THEN Redirect("/signin")
       ELSE /\ page' = [page EXCEPT !.pc = "portalSelect", !.user = session]
            /\ UNCHANGED <<pre, si>>
    /\ UNCHANGED <<store, req, approved, session, meta, su, nav>>

\* (portal)/portal/page.js:33-40: select('*').eq('id', ...).single(), setProfile
PortalSelect(outcome) ==
    /\ page.pc = "portalSelect"
    /\ LET found == Matching(VisibleRows(store, session), page.user)
       IN page' = [page EXCEPT !.pc = "shown",
                      !.profile = IF outcome = "ok" /\ found # {}
                                  THEN CHOOSE row \in found : TRUE
                                  ELSE Null]
    /\ UNCHANGED <<store, req, approved, session, meta, su, si, pre, nav>>

\* (portal)/portal/page.js:22-43
portalGetUser ==
    \/ PortalGetSession
    \/ \E outcome \in StoreOutcomes : PortalSelect(outcome)

\* the rows the server client of verify-users/page.js:3 reads: the module
\* '@/lib/supabase-server' is not among the sources; as the admin operations
\* of fix-rls-policies.sql:31-32 and 39 it is taken to read every row
ServerRows(rows) == rows

\* the gate as it would be if it tested only that a profile was read
NotAdmin_AnyProfile(currentUser) == FalsyObj(currentUser)

\* verify-users/page.js:170
NotAdmin(currentUser) == FalsyObj(currentUser) \/ currentUser.role # "ADMIN"

\* verify-users/page.js:53-60: getCurrentUserProfile, auth.getUser
VerifyGetUser(outcome) ==
    /\ page.pc = "verifyUser"
    /\ LET user == AuthGetUser(outcome)
       IN IF user = Undefined
          THEN Redirect("/dashboard")
          ELSE /\ page' = [page EXCEPT !.pc = "verifySelect", !.user = user]
               /\ UNCHANGED <<pre, si>>
    /\ UNCHANGED <<store, req, approved, session, meta, su, nav>>

\* verify-users/page.js:62-73, 168-172: the select of the own row with
\* .single(), then the gate of the page
VerifySelect(outcome) ==
    /\ page.pc = "verifySelect"
    /\ LET found == Matching(ServerRows(store), page.user)
           currentUser == IF outcome = "ok" /\ found # {}
                          THEN Select(CHOOSE row \in found : TRUE,
                                      {"id", "name", "role", "status"})
                          ELSE Null
       IN IF NotAdmin(currentUser)
          THEN Redirect("/dashboard")
          ELSE /\ page' = [page EXCEPT !.pc = "verifyPending", !.profile = currentUser]
               /\ UNCHANGED <<pre, si>>
    /\ UNCHANGED <<store, req, approved, session, meta, su, nav>>

\* verify-users/page.js:83-101: getPendingUsers; an error gives the empty list
getPendingUsers(rows, outcome) ==
    IF outcome = "error" THEN {}
    ELSE {Select(row, {"id", "name", "role"}) : row \in {r \in rows : r.status = "PENDING"}}

\* verify-users/page.js:174-175: the list is fetched and the page rendered
VerifyGetPendingUsers(outcome) ==
    /\ page.pc = "verifyPending"
    /\ page' = [page EXCEPT !.pc = "shown", !.pendingUsers = getPendingUsers(ServerRows(store), outcome)]
    /\ UNCHANGED <<store, req, approved, session, meta, su, si, pre, nav>>

\* verify-users/page.js:163-175
VerifyUsersPage ==
    \/ \E outcome \in StoreOutcomes : VerifyGetUser(outcome)
    \/ \E outcome \in StoreOutcomes : VerifySelect(outcome)
    \/ \E outcome \in StoreOutcomes : VerifyGetPendingUsers(outcome)

\* auth/callback/page.js:47-55: the row the OAuth callback inserts
CallbackPayload(u) == [id |-> u, full_name |-> FullName, role |-> "STUDENT"]

\* auth/callback/page.js:65-71
CallbackDest(profile) ==
    IF Get(profile, "role") = "ADMIN" THEN "/admin"
    ELSE IF Get(profile, "role") = "RECRUITER" THEN "/recruiter"
    ELSE "/portal"

\* auth/callback/page.js:29-37, 72-75: getSession
CallbackGetSession(outcome) ==
    /\ page.pc = "callback"
    /\ IF outcome = "error" \/ session = Undefined
       THEN Redirect("/signin")
       ELSE /\ page' = [page EXCEPT !.pc = "callbackSelect", !.user = session]
            /\ UNCHANGED <<pre, si>>
    /\ UNCHANGED <<store, req, approved, session, meta, su, nav>>

\* auth/callback/page.js:39-45, 62-71: select('role').single(); with a row
\* the redirect by its role, without one the insert comes first
CallbackSelect(outcome) ==
    /\ page.pc = "callbackSelect"
    /\ LET found == Matching(VisibleRows(store, session), page.user)
           profile == IF outcome = "ok" /\ found # {}
                      THEN Select(CHOOSE row \in found : TRUE, {"role"})
                      ELSE Null
       IN IF FalsyObj(profile)
          THEN /\ page' = [page EXCEPT !.pc = "callbackInsert"]
               /\ UNCHANGED <<pre, si>>
          ELSE Redirect(CallbackDest(profile))
    /\ UNCHANGED <<store, req, approved, session, meta, su, nav>>

\* auth/callback/page.js:46-71: the insert, whose error is logged, and the
\* redirect with no profile read
CallbackInsert(outcome) ==
    /\ page.pc = "callbackInsert"
    /\ LET payload == CallbackPayload(page.user)
           insertError == \/ outcome = "error"
                          \/ session # page.user
                          \/ InsertConflicts(store, payload)
       IN store' = IF insertError THEN store ELSE store \cup {NewRow(payload)}
    /\ Redirect(CallbackDest(Null))
    /\ UNCHANGED <<req, approved, session, meta, su, nav>>

\* auth/callback/page.js:26-81
handleCallback ==
    \/ \E outcome \in StoreOutcomes : CallbackGetSession(outcome)
    \/ \E outcome \in StoreOutcomes : CallbackSelect(outcome)
    \/ \E outcome \in StoreOutcomes : CallbackInsert(outcome)

----------------------------------------------------------------------------

Init ==
    /\ store = {}
    /\ req = [r \in Reqs |-> IdleReq]
    /\ approved = {}
    /\ session = Undefined
    /\ meta = [u \in Users |-> Undefined]
    /\ su = IdleSu
    /\ si = IdleSi
    /\ pre = IdlePre
    /\ page = MountPage("/")
    /\ nav = IdleNav

\* the route and the approval action
Next ==
    \/ POST("a", Bodies)
    \/ \E userId \in Users, outcome \in StoreOutcomes : approveUser(userId, outcome)

Spec == Init /\ [][Next]_vars

----------------------------------------------------------------------------
(* Two concurrent calls of the route for one new identity *)

RaceBodies == {ViewBody("u1", r) : r \in RoleInputs}

NextRace == \E r \in Reqs : POST(r, RaceBodies)

SpecRace == Init /\ [][NextRace]_vars

----------------------------------------------------------------------------
(* The browser's pages with the route and the approval action *)

\* the identity that uses the browser
ViewUsers == {"u1"}

NextViews ==
    \/ \E path \in Paths : Visit(path)
    \/ \E u \in ViewUsers, role \in SignUpRoles, outcome \in StoreOutcomes, confirmed \in BOOLEAN :
          HandleSubmitSignUp(u, role, outcome, confirmed)
    \/ \E outcome \in StoreOutcomes : HandleSubmitUpsert(outcome)
    \/ HandleSubmitRedirect
    \/ handleEmailSignIn(ViewUsers)
    \/ checkAuth
    \/ getUser
    \/ init
    \/ dashboardGetUser
    \/ portalGetUser
    \/ \E r \in Reqs, outcome \in StoreOutcomes : PostUpdate(r, outcome)
    \/ \E r \in Reqs, outcome \in StoreOutcomes : PostInsert(r, outcome)
    \/ \E userId \in Users, outcome \in StoreOutcomes : approveUser(userId, outcome)

SpecViews == Init /\ [][NextViews]_vars

----------------------------------------------------------------------------
(* The sign-in page alone, for every profile row and role metadata that the *)
(* writers of the repository and the auth service can have left behind      *)

\* the rows of an identity: created by the route, by the sign-up upsert or by
\* the OAuth callback
RowsOf(u) ==
    {NewRow(CreatePayload(ViewBody(u, r))) : r \in RoleInputs}
    \cup {NewRow([id |-> u, full_name |-> FullName, role |-> r,
                  status |-> IF r = "STUDENT" THEN "APPROVED" ELSE "PENDING"]) :
            r \in SignUpRoles}
    \cup {NewRow(CallbackPayload(u))}

InitSignIn ==
    /\ store \in {{}} \cup {{row} : row \in RowsOf("u1")}
    /\ req = [r \in Reqs |-> IdleReq]
    /\ approved = {}
    /\ session = Undefined
    /\ meta \in {[u \in Users |-> IF u = "u1" THEN r ELSE Undefined] : r \in RoleInputs}
    /\ su = IdleSu
    /\ si = IdleSi
    /\ pre = [IdlePre EXCEPT !.pc = "stay"]
    /\ page = MountPage("/signin")
    /\ nav = IdleNav

NextSignIn ==
    \/ handleEmailSignIn(ViewUsers)
    \/ \E outcome \in StoreOutcomes : PostUpdate("a", outcome)
    \/ \E outcome \in StoreOutcomes : PostInsert("a", outcome)

SpecSignIn == InitSignIn /\ [][NextSignIn]_vars

----------------------------------------------------------------------------
(* The automatic steps alone: a page is opened and the effects of the pages *)
(* and the route run until no redirect is left                              *)

\* the pages a chain starts at
StartPaths == {"/signin", "/admin/verify-users", "/auth/callback"}

\* a row of the other identity that waits for approval
OtherPending == NewRow([id |-> "u2", full_name |-> FullName, role |-> "RECRUITER",
                        status |-> "PENDING"])

InitPages ==
    /\ store \in {own \cup other : own \in {{}} \cup {{row} : row \in RowsOf("u1")},
                                   other \in {{}, {OtherPending}}}
    /\ req = [r \in Reqs |-> IdleReq]
    /\ approved = {}
    /\ session \in {Undefined, "u1"}
    /\ meta \in {[u \in Users |-> IF u = "u1" THEN r ELSE Undefined] : r \in RoleInputs}
    /\ su = IdleSu
    /\ si = IdleSi
    /\ \E path \in StartPaths :
          /\ page = MountPage(path)
          /\ pre = IF path = "/signin" THEN [IdlePre EXCEPT !.pc = "getSession"] ELSE IdlePre
    /\ nav = IdleNav

NextPages ==
    \/ checkAuth
    \/ getUser
    \/ init
    \/ dashboardGetUser
    \/ portalGetUser
    \/ VerifyUsersPage
    \/ handleCallback
    \/ \E r \in Reqs, outcome \in StoreOutcomes : PostUpdate(r, outcome)
    \/ \E r \in Reqs, outcome \in StoreOutcomes : PostInsert(r, outcome)

SpecPages == InitPages /\ [][NextPages]_vars

\* the browser runs every effect that is pending
SpecChain == SpecPages /\ WF_vars(NextPages)

----------------------------------------------------------------------------
(* The Navbar alone, over every row its user can have *)

InitNavbar ==
    /\ store \in {{}} \cup {{row} : row \in RowsOf("u1")}
    /\ req = [r \in Reqs |-> IdleReq]
    /\ approved = {}
    /\ session \in {Undefined, "u1"}
    /\ meta = [u \in Users |-> Undefined]
    /\ su = IdleSu
    /\ si = IdleSi
    /\ pre = IdlePre
    /\ page = MountPage("/")
    /\ nav = IdleNav

SpecNavbar == InitNavbar /\ [][Navbar]_vars

----------------------------------------------------------------------------
(* Properties of POST /api/profile *)

\* the four roles of the specification, the alumnus role in the spelling
\* the route stores
CanonicalRoles == {"STUDENT", "ALUMNI", "RECRUITER", "ADMIN"}

ProfileColumns == {"id", "name", "role", "status"}

Done(r) == req[r].pc = "done"
Created(r) == Done(r) /\ req[r].res.status = 201

\* the step in which call r is received and looks its row up
LookupStep(r) == req[r].pc \in {"idle", "done"} /\ req'[r] # req[r]

\* C1: a profile created without a status override is APPROVED when its role
\* is STUDENT or ADMIN and PENDING when it is the alumnus role or RECRUITER
C1_CreatedStatusByRole ==
    \A r \in Reqs :
        (Created(r) /\ Falsy(req[r].body.status)) =>
            req[r].res.body.status =
                IF req[r].res.body.role \in {"STUDENT", "ADMIN"} THEN "APPROVED" ELSE "PENDING"

\* C4: the status of a created profile is the one any request that differs
\* only in body.status would have created
C4_CreatedStatusIgnoresBodyStatus ==
    \A r \in Reqs :
        Created(r) =>
            \A s \in StatusInputs :
                CreatePayload([req[r].body EXCEPT !.status = s]).status = req[r].res.body.status

\* C6: when the row exists and the claimed role is canonical and differs from
\* the stored one, the call goes on to the update, and the update, unless the
\* store fails, stores the claimed role in that row alone and returns the row
C6_RoleUpgrade ==
    [][\A r \in Reqs :
        LET b == req'[r].body
            rows == Matching(store, b.userId)
            now == Matching(store', req[r].body.userId)
        IN /\ ( /\ LookupStep(r)
                /\ ~Falsy(b.userId) /\ ~FalsyText(b.email)
                /\ b.role \in CanonicalRoles
                /\ \E row \in rows : row.role # b.role )
              => \/ req'[r].pc = "update"
                 \/ req'[r].res = Response(500, ErrorBody(StoreUnavailable))
           /\ (req[r].pc = "update" /\ req'[r].pc = "done")
              => \/ req'[r].res = Response(500, ErrorBody(StoreUnavailable)) /\ store' = store
                 \/ /\ req'[r].res.status = 200
                    /\ req'[r].res.body.role = req[r].body.role
                    /\ now # {}
                    /\ \A row \in now :
                          /\ row.role = req[r].body.role
                          /\ req'[r].res.body = Select(row, ProfileColumns \cup {"email"})
                    /\ store' = UpdateRows(store, req[r].body.userId, [role |-> req[r].body.role])
    ]_vars

\* C6 happens: a stored ADMIN role has been overwritten with STUDENT
C6_Witness ==
    \E r \in Reqs :
        /\ Done(r)
        /\ req[r].existing # Null
        /\ req[r].existing.role = "ADMIN"
        /\ req[r].body.role = "STUDENT"
        /\ req[r].res.status = 200
        /\ req[r].res.body.role = "STUDENT"
        /\ \E row \in store : row.id = req[r].body.userId /\ row.role = "STUDENT"

\* C10: when the row exists and the claimed role is absent, not canonical or
\* the stored one, the call writes nothing and returns the existing profile
C10_NoWriteWithoutUpgrade ==
    [][\A r \in Reqs :
        LET b == req'[r].body
            rows == Matching(store, b.userId)
        IN ( /\ LookupStep(r)
             /\ ~Falsy(b.userId) /\ ~FalsyText(b.email)
             /\ rows # {}
             /\ \/ Falsy(b.role)
                \/ b.role \notin CanonicalRoles
                \/ \E row \in rows : row.role = b.role )
           => /\ store' = store
              /\ req'[r].pc = "done"
              /\ ~req'[r].wrote
              /\ \/ \E row \in rows :
                        req'[r].res = Response(200, Select(row, ProfileColumns \cup {"email"}))
                 \/ req'[r].res = Response(500, ErrorBody(StoreUnavailable))
    ]_vars

\* C10 happens: an unknown claimed role on an existing row, answered with the row
C10_Witness ==
    \E r \in Reqs :
        /\ Done(r)
        /\ req[r].existing # Null
        /\ req[r].body.role = "GUEST"
        /\ req[r].res = Response(200, req[r].existing)
        /\ ~req[r].wrote

\* C5: of two calls that both found no row for the same identity, neither ends
\* with the store's duplicate-key error: each answers with a profile of that id
C5_RaceReturnsProfileToBoth ==
    \A r1, r2 \in Reqs :
        ( /\ r1 # r2
          /\ Done(r1) /\ Done(r2)
          /\ req[r1].payload # Null /\ req[r2].payload # Null
          /\ req[r1].body.userId = req[r2].body.userId
          /\ req[r1].res # Response(500, ErrorBody(StoreUnavailable))
          /\ req[r2].res # Response(500, ErrorBody(StoreUnavailable)) )
        => /\ Cardinality(Matching(store, req[r1].body.userId)) = 1
           /\ req[r1].res.status \in {200, 201}
           /\ req[r2].res.status \in {200, 201}
           /\ Get(req[r1].res.body, "id") = req[r1].body.userId
           /\ Get(req[r2].res.body, "id") = req[r1].body.userId

\* C9: a call that creates leaves exactly one row of its id, and a call with
\* the same body that finds the row as created writes nothing and returns it
C9_IdempotentAfterCreation ==
    /\ \A r \in Reqs :
          Created(r) => Cardinality(Matching(store, req[r].body.userId)) = 1
    /\ \A r1, r2 \in Reqs :
          ( /\ r1 # r2
            /\ Created(r1) /\ Done(r2)
            /\ req[r2].body = req[r1].body
            /\ req[r2].existing # Null
            /\ Select(req[r2].existing, ProfileColumns) = req[r1].res.body )
          => /\ req[r2].res.status = 200
             /\ ~req[r2].wrote
             /\ Select(req[r2].res.body, ProfileColumns) = req[r1].res.body

\* C9 happens: the second call has answered with the profile the first created
C9_Witness ==
    \E r1, r2 \in Reqs :
        /\ r1 # r2
        /\ Created(r1) /\ Done(r2)
        /\ req[r2].body = req[r1].body
        /\ req[r2].existing # Null
        /\ req[r2].res.status = 200
        /\ Select(req[r2].res.body, ProfileColumns) = req[r1].res.body


\* call r answers in this step
AnswerStep(r) ==
    \/ LookupStep(r) /\ req'[r].pc = "done"
    \/ req[r].pc \in {"update", "insert"} /\ req'[r].pc = "done"

C12_StoreFailureIs500 ==
    [][\A r \in Reqs :
        /\ ( /\ LookupStep(r)
             /\ ~Falsy(req'[r].body.userId) /\ ~FalsyText(req'[r].body.email)
             /\ req'[r] = Lookup(store, req'[r].body, "error") )
           => /\ req'[r].pc = "done"
              /\ req'[r].res.status = 500
              /\ DOMAIN req'[r].res.body = {"error"}
              /\ req'[r].payload = Null /\ ~req'[r].wrote
              /\ store' = store
        /\ ( /\ req[r].pc \in {"update", "insert"}
             /\ req'[r].pc = "done"
             /\ req'[r].res.status \notin {200, 201} )
           => /\ req'[r].res.status = 500
              /\ DOMAIN req'[r].res.body = {"error"}
              /\ ~req'[r].wrote
              /\ store' = store]_vars

\* C12 happens: the lookup of an identity that has a row failed, and the call
\* ended with 500 without a write
C12_Witness ==
    \E r \in Reqs :
        /\ Done(r)
        /\ ~Falsy(req[r].body.userId) /\ ~FalsyText(req[r].body.email)
        /\ Matching(store, req[r].body.userId) # {}
        /\ req[r].existing = Null /\ req[r].payload = Null
        /\ req[r].res = Response(500, ErrorBody(StoreUnavailable))

\* C13: a call answers 201 exactly when it inserted a new row, and it answers
\* 200 only when the row of userId existed and still exists, no row added;
\* every answer is 200, 201, 400 or 500
C13_StatusCodeTellsCreation ==
    [][\A r \in Reqs :
        AnswerStep(r) =>
            LET userId == req'[r].body.userId
                inserted == /\ Matching(store, userId) = {}
                            /\ \E row \in store' :
                                  row.id = userId /\ store' = store \cup {row}
            IN /\ req'[r].res.status \in {200, 201, 400, 500}
               /\ (req'[r].res.status = 201) <=> inserted
               /\ (req'[r].res.status = 200)
                  => /\ Matching(store, userId) # {}
                     /\ Cardinality(store') = Cardinality(store)
                     /\ \E row \in Matching(store', userId) :
                           req'[r].res.body = Select(row, ProfileColumns \cup {"email"})]_vars

\* C13 happens: a call has inserted the row of its identity and answered 201
C13_Witness ==
    \E r \in Reqs :
        /\ Done(r)
        /\ req[r].res.status = 201
        /\ req[r].existing = Null
        /\ req[r].wrote
        /\ \E row \in store : row.id = req[r].body.userId

\* C14: under any interleaving of calls the store holds at most one row per
\* id; a call that answers 200 or 201 leaves exactly one row of its userId;
\* no step removes a row or changes the id of a row
C14_OneRowPerUser ==
    [][/\ \A u \in Users : Cardinality(Matching(store', u)) <= 1
       /\ \A row \in store : Matching(store', row.id) # {}
       /\ Cardinality(store') >= Cardinality(store)
       /\ \A r \in Reqs :
             (AnswerStep(r) /\ req'[r].res.status \in {200, 201})
             => /\ Cardinality(Matching(store', req'[r].body.userId)) = 1
                /\ \A row \in Matching(store', req'[r].body.userId) :
                      req'[r].res.body.id = row.id]_vars

\* C14 happens: two calls for one identity both found no row and both went on
\* to insert; one row of that identity is stored
C14_Witness ==
    \E r1, r2 \in Reqs :
        /\ r1 # r2
        /\ Done(r1) /\ Done(r2)
        /\ req[r1].body.userId = req[r2].body.userId
        /\ req[r1].payload # Null /\ req[r2].payload # Null
        /\ req[r1].payload # req[r2].payload
        /\ req[r1].res.status = 201
        /\ Cardinality(Matching(store, req[r1].body.userId)) = 1

\* C16: for every store, a call whose claimed role is the legacy spelling
\* ALUMNUS goes the way of the same call with the spelling ALUMNI: the same
\* next step, the same answer, the same row to insert
C16_LegacySpellingSameOutcome ==
    \A b \in Bodies : \A fetch \in StoreOutcomes :
        b.role = "ALUMNUS" =>
            LET legacy == Lookup(store, b, fetch)
                canonical == Lookup(store, [b EXCEPT !.role = "ALUMNI"], fetch)
            IN /\ legacy.pc = canonical.pc
               /\ legacy.res = canonical.res
               /\ legacy.payload = canonical.payload

\* C20: the row a call creates has id = userId, name = the characters of the
\* email before its first "@" and role = the claimed role when that is one of
\* the four canonical roles, the alumnus role otherwise; a call without a row
\* whose claimed role is absent or unknown is not rejected for it
C20_CreatedFields ==
    [][\A r \in Reqs :
        LET b == req'[r].body
        IN /\ (req[r].pc = "insert" /\ req'[r].pc = "done" /\ req'[r].res.status = 201)
              => \E row \in store' \ store :
                    /\ row.id = b.userId
                    /\ Len(row.name) <= Len(b.email)
                    /\ row.name = SubSeq(b.email, 1, Len(row.name))
                    /\ \A i \in 1..Len(row.name) : row.name[i] # "@"
                    /\ Len(row.name) < Len(b.email) => b.email[Len(row.name) + 1] = "@"
                    /\ row.role = IF b.role \in CanonicalRoles THEN b.role ELSE "ALUMNI"
                    /\ req'[r].res.body = Select(row, ProfileColumns)
           /\ ( /\ LookupStep(r)
                /\ b.userId \in Users /\ b.email = EmailOf(b.userId)
                /\ Matching(store, b.userId) = {}
                /\ b.role \notin CanonicalRoles )
              => \/ req'[r].pc = "insert" /\ req'[r].payload.role = "ALUMNI"
                 \/ req'[r].res = Response(500, ErrorBody(StoreUnavailable))]_vars

\* C20 happens: an unknown claimed role and an email with two "@" have given
\* a row with the alumnus role and the name before the first "@"
C20_Witness ==
    \E r \in Reqs :
        /\ Created(r)
        /\ req[r].body.role = "GUEST"
        /\ req[r].body.userId = "u2"
        /\ req[r].res.body.role = "ALUMNI"
        /\ req[r].res.body.name = <<"b">>
        /\ \E row \in store : row.id = "u2" /\ row.name = <<"b">> /\ row.role = "ALUMNI"

\* C23: a stored row whose role is RECRUITER has status APPROVED only if
\* approveUser was executed for its id, in every state reached by a creation
\* followed by role upgrades
C23_RecruiterApprovedOnlyByApproval ==
    \A row \in store :
        (row.role = "RECRUITER" /\ row.status = "APPROVED") => row.id \in approved

\* the effect of approveUser(userId) on the store: the row of userId has
\* status APPROVED and is otherwise as it was, every other row is as it was
ApproveFrame(userId) ==
    /\ \A row \in store : row.id # userId => row \in store'
    /\ \A row \in store : row.id = userId => [row EXCEPT !.status = "APPROVED"] \in store'
    /\ Cardinality(store') = Cardinality(store)
    /\ (\A row \in Matching(store, userId) : row.status = "APPROVED") => store' = store

\* C25: a step of approveUser (the only step that leaves the calls of the
\* route as they are) changes nothing but the status of the row of one id,
\* which becomes APPROVED; an approved row leaves the store unchanged
C25_ApproveFrame ==
    [][req' = req =>
          /\ store' = store \/ \E userId \in Users : ApproveFrame(userId)
          /\ UNCHANGED <<session, meta, su, si, pre, page, nav>>]_vars

\* a row approved by approveUser beside a row of another id still PENDING
C25_Witness ==
    \E row \in store, other \in store :
        /\ row.id \in approved /\ row.status = "APPROVED"
        /\ other.id # row.id /\ other.status = "PENDING"

----------------------------------------------------------------------------
(* Properties of the browser's pages *)

\* the step in which handleEmailSignIn, both tasks back, blocks or redirects
DecideStep == si.pc = "parallel" /\ si'.pc # "parallel"

\* C2: when the profile resolved for the user has status PENDING and the
\* derived role is not STUDENT, the sign-in is blocked: the pending-approval
\* message is set, the session is signed out and no redirect is issued
C2_PendingNonStudentBlocked ==
    [][( /\ DecideStep
         /\ Get(si.profileResponse, "status") = "PENDING"
         /\ si'.derivedRole # "STUDENT" )
       => /\ si'.pc = "blocked"
          /\ si'.error = PendingApprovalMessage
          /\ session' = Undefined
          /\ page' = page]_vars

\* C3: the recruiter and admin areas are never rendered for a profile whose
\* status is PENDING and whose role is not STUDENT
C3_PendingNeverRendered ==
    page.pc = "rendered" =>
        ~(page.profile.status = "PENDING" /\ page.profile.role # "STUDENT")

\* the step of approveUser that updates the row of id
ApproveStep(id) ==
    /\ store' = UpdateRows(store, id, [status |-> "APPROVED"])
    /\ approved' = approved \cup {id}
    /\ UNCHANGED <<req, session, meta, su, si, pre, page, nav>>

\* C7: the status of a stored row goes from PENDING to APPROVED only in a
\* step of approveUser; no other write changes the status of an existing row
C7_ApprovedOnlyByApproveUser ==
    [][\A row \in store : \A now \in Matching(store', row.id) :
          now.status # row.status =>
              row.status = "PENDING" /\ now.status = "APPROVED" /\ ApproveStep(row.id)]_vars

\* C8: a stored row whose status is APPROVED keeps that status in every step
C8_ApprovedStaysApproved ==
    [][\A row \in store : \A now \in Matching(store', row.id) :
          row.status = "APPROVED" => now.status = "APPROVED"]_vars


\* C15: of the two alumnus spellings only one is ever persisted: the store
\* never holds a row with one spelling in a state and a row with the other
\* spelling in the next state
C15_OneAlumnusSpelling ==
    [][\A row \in store, now \in store' :
          /\ ~(row.role = "ALUMNUS" /\ now.role = "ALUMNI")
          /\ ~(row.role = "ALUMNI" /\ now.role = "ALUMNUS")]_vars


\* C17: the mapping of the legacy spelling applied at sign-in returns a
\* canonical role unchanged and gives the same value applied twice as applied
\* once; the roles the sign-in and the precheck have derived are its fixed points
C17_NormalizeIdempotent ==
    /\ \A role \in RoleInputs :
          /\ role \in CanonicalRoles => NormalizeRole(role) = role
          /\ NormalizeRole(NormalizeRole(role)) = NormalizeRole(role)
    /\ NormalizeRole("ALUMNUS") = "ALUMNI"
    /\ si.pc \in {"blocked", "redirected"} => NormalizeRole(si.derivedRole) = si.derivedRole
    /\ pre.pc = "redirected" => NormalizeRole(pre.roleCandidate) = pre.roleCandidate

\* C17 happens: a sign-in has derived ALUMNI for a user whose row holds ALUMNUS
C17_Witness ==
    /\ si.pc = "redirected"
    /\ si.derivedRole = "ALUMNI"
    /\ \E row \in store : row.id = si.user /\ row.role = "ALUMNUS"


\* C18: a sign-in that is not blocked goes to exactly one destination, which
\* the derived role alone decides: ADMIN /admin, RECRUITER /recruiter, STUDENT
\* /student/dashboard, every other value /dashboard; no role gives an error
C18_RedirectTotal ==
    [][DecideStep =>
        /\ si'.pc \in {"blocked", "redirected"}
        /\ si'.pc = "redirected" =>
              /\ si'.error = ""
              /\ page'.path = si'.dest
              /\ si'.dest = IF si'.derivedRole = "ADMIN" THEN "/admin"
                            ELSE IF si'.derivedRole = "RECRUITER" THEN "/recruiter"
                            ELSE IF si'.derivedRole = "STUDENT" THEN "/student/dashboard"
                            ELSE "/dashboard"]_vars

\* C18 happens: a role no code knows was derived and the sign-in went to /dashboard
C18_Witness ==
    /\ si.pc = "redirected"
    /\ si.derivedRole = "GUEST"
    /\ page.path = "/dashboard"

\* C19: a sign-in whose derived role is STUDENT is never blocked, whatever the
\* status of the profile: it keeps the session and goes to /student/dashboard
C19_StudentNeverBlocked ==
    [][(DecideStep /\ si'.derivedRole = "STUDENT") =>
        /\ si'.pc = "redirected"
        /\ si'.error = ""
        /\ session' = session /\ session' = si'.user
        /\ page'.path = "/student/dashboard"]_vars

\* C19 happens: a student whose row is PENDING has been let through
C19_Witness ==
    /\ si.pc = "redirected"
    /\ si.derivedRole = "STUDENT"
    /\ page.path = "/student/dashboard"
    /\ \E row \in store : row.id = si.user /\ row.role = "STUDENT" /\ row.status = "PENDING"


\* C29: in the Navbar, profile is never non-null while user is null: once
\* SIGNED_OUT is handled both stay null until the next SIGNED_IN, whatever
\* fetch is still in flight
C29_NoProfileWithoutUser ==
    (nav.user = Undefined) => (nav.profile = Null)


\* C24: when the profile-ensure request and the direct role read have both
\* answered without an error, and the role read is not an alumnus spelling
\* (which the metadata role replaces), the role that handleEmailSignIn uses
\* for the redirect equals the role stored for the user at that moment
C24_RedirectRoleIsStoredRole ==
    [][(/\ DecideStep /\ si'.pc = "redirected"
        /\ ~FalsyObj(si.profileResponse) /\ ~Falsy(si.role)
        /\ si.role \notin {"ALUMNI", "ALUMNUS"}) =>
          \A row \in Matching(store', si.user) :
              si'.derivedRole = NormalizeRole(row.role)]_vars


\* the step in which the student dashboard passes its role test and goes on
\* to fetch the events and the mentorship requests
StudentAdmitStep ==
    /\ page.path = "/student/dashboard"
    /\ page.pc \in {"waiting", "waiting2"}
    /\ page'.pc = "fetching"

\* C27: StudentDashboard.init goes on to fetch and show the dashboard only
\* for a user whose resolved profile role is STUDENT: the stored row of the
\* user has the role STUDENT when init lets the user through
C27_OnlyStudentsShown ==
    [][StudentAdmitStep =>
          \A row \in Matching(store, page.user) : row.role = "STUDENT"]_vars


\* no effect of the sign-in page or of the page shown is pending: the page
\* on show issues no further redirect
ChainAtRest == ~PreInFlight /\ ~PageInFlight

PendingRows ==
    {[id |-> row.id, name |-> row.name, role |-> row.role] :
        row \in {r \in store : r.status = "PENDING"}}

\* the gate of VerifyUsersPage: a page that goes on to the list has an
\* authenticated user whose stored role is ADMIN, every other page is
\* redirected to /dashboard with no list fetched
VerifyGate ==
    /\ (page.pc = "verifyUser" /\ page' # page) =>
          \/ /\ page'.pc = "verifySelect"
             /\ session # Undefined /\ page'.user = session
          \/ page' = MountPage("/dashboard")
    /\ (page.pc = "verifySelect" /\ page' # page) =>
          \/ /\ page'.pc = "verifyPending"
             /\ page'.pendingUsers = {}
             /\ \E row \in store : row.id = page.user /\ row.role = "ADMIN"
          \/ page' = MountPage("/dashboard")
    /\ (page.pc = "verifySelect" /\ ~\E row \in store : row.id = page.user /\ row.role = "ADMIN") =>
          page'.pc # "verifyPending"
    /\ page.pc = "verifyPending" => page.profile.role = "ADMIN"

AlumnusRoles == {"ALUMNUS", "ALUMNI"}

\* C21: when the lookup fails the helpers of the profile service return the
\* requested id with the alumnus role, status APPROVED and the name "User",
\* and the fallback that the dashboard view substitutes for the same user
\* has the same values
C21_FallbackValues ==
    (page.path = "/dashboard" /\ page.pc = "shown" /\ "fallback" \in DOMAIN page.profile) =>
        LET view == page.profile
            f == getUserProfileSafe(store, page.user, "error")
            g == getUserProfileSafe_Lib(store, page.user, "error")
            h == getUserProfileClient_Lib(store, session, page.user, "error")
        IN /\ f.id = page.user /\ f.role \in AlumnusRoles /\ f.status = "APPROVED"
           /\ f.name = UserText
           /\ g.id = page.user /\ g.role \in AlumnusRoles /\ g.status = "APPROVED"
           /\ h.id = page.user /\ h.role \in AlumnusRoles /\ h.status = "APPROVED"
           /\ view.id = page.user
           /\ view.role = f.role /\ view.status = f.status /\ view.name = f.name

\* C22: every step that creates a row gives it status APPROVED when its role
\* is STUDENT or ADMIN and status PENDING for every other role
C22_CreatedStatusByRole ==
    [][\A now \in store' :
          Matching(store, now.id) = {} =>
              now.status = IF now.role \in {"STUDENT", "ADMIN"} THEN "APPROVED"
                           ELSE "PENDING"]_vars

\* C30: for the role of a stored row the views choose the same destination:
\* the redirect that the OAuth callback issues is the destination of the
\* precheck, of the email sign-in and of the Navbar link for that role
C30_SameDestination ==
    [][(page.pc = "callbackSelect" /\ page'.path # page.path) =>
          \A row \in Matching(store, page.user) :
              /\ page'.path = PrecheckDest(NormalizeRole(row.role))
              /\ page'.path = SignInDest(NormalizeRole(row.role))
              /\ page'.path = getDashboardLink([role |-> row.role])]_vars

====
